---- MODULE Spec2Model ----
(***************************************************************************)
(* Model of the sparse-matrix ontology graph engine of ontograph.          *)
(*                                                                         *)
(* A loaded ontology is a pair (lookup tables, is-a matrix).  Term ids are *)
(* modelled as integers standing for the id strings in their sort order;   *)
(* indices are the 0-based positions the lookup tables assign.  A sparse   *)
(* matrix is the set of its stored <<row, col>> entries and a sparse       *)
(* vector the set of its stored indices: every stored value is a positive  *)
(* count, so the structure alone decides what to_coo()[0] returns.         *)
(* Collections returned as Python lists or sets of ids are modelled as     *)
(* sets: the order of list(set) is not part of any contract.               *)
(***************************************************************************)
EXTENDS Integers, Sequences, FiniteSets, TLC

\* ------------------------------------------------------------------------
\* Bounds of the model
\* ------------------------------------------------------------------------
NumIds == 4
MaxEdges == 3
MaxDistance == 3
MaxIds == 2
MaxLoads == 2
MaxSmallTerms == 2

\* The universe of term ids a caller may pass; those of the loaded ontology
\* are a non-empty subset of it.
Ids == 1..NumIds

\* ontology is the parsed source (its term ids, its is-a statements and its
\* obsolete terms) that load() hands to the backend; lookup_tables,
\* number_nodes, edges_indices and matrices_container are what the matrix
\* backend builds from it; navigator, relations and introspection are the
\* client's three query adapters; loads is the backends of the load calls
\* that have succeeded on the client, in order; threads is, for each thread
\* that queries the client beside the caller, the call it is in and the
\* locals of that call.
VARIABLES ontology, lookup_tables, number_nodes, edges_indices, matrices_container, navigator, relations, introspection, loads, call, result, threads

client_vars == <<ontology, lookup_tables, number_nodes, edges_indices, matrices_container, navigator, relations, introspection, loads>>

vars == <<client_vars, call, result, threads>>

\* ------------------------------------------------------------------------
\* Python values
\* ------------------------------------------------------------------------
\* distance=None is the empty tuple, distance=k the 1-tuple <<k>>.
None == <<>>

Return(v) == [kind |-> "return", value |-> v]

Raise(e) == [kind |-> "raise", value |-> e]

NoCall == [op |-> "none"]

NoResult == [kind |-> "none"]

\* ------------------------------------------------------------------------
\* Construction: extract_terms, LookUpTables, EdgesContainer, Graph
\* ------------------------------------------------------------------------
\* extract_terms sorting by descending id.
RECURSIVE extract_terms_descending(_)
extract_terms_descending(S) ==
    IF S = {} THEN <<>>
    ELSE LET m == CHOOSE x \in S : \A y \in S : x >= y
         IN  <<m>> \o extract_terms_descending(S \ {m})

RECURSIVE extract_terms(_)
extract_terms(S) ==
    IF S = {} THEN <<>>
    ELSE LET m == CHOOSE x \in S : \A y \in S : x <= y
         IN  <<m>> \o extract_terms(S \ {m})

LookUpTables(terms) ==
    [ lut_term_to_index |->
        [ t \in {terms[i] : i \in 1..Len(terms)} |->
            (CHOOSE i \in 1..Len(terms) : terms[i] = t) - 1 ],
      lut_index_to_term |-> terms ]

\* subclass_of is the parsed ontology's direct is-a relation, a set of
\* <<child id, parent id>>; term.subclasses(with_self=False, distance=1) is
\* the set of direct children of term.
subclasses(subclass_of, term) == { e[1] : e \in { d \in subclass_of : d[2] = term } }

\* relationships is the parsed ontology's statements of its one relation
\* other than is-a, 'part_of', a set of <<term id, target id>>;
\* term.relationships gives the targets of term.
relationship_targets(relationships, term) == { e[2] : e \in { d \in relationships : d[1] = term } }

\* _create_edges_index_containers: a container for every relation that some
\* indexed term states, and always one for 'is_a'.
create_edges_index_containers(terms, o) ==
    {"is_a"} \cup
    (IF \E k \in 1..Len(terms) : relationship_targets(o.relationships, terms[k]) # {}
     THEN {"part_of"} ELSE {})

\* What one term appends: to 'is_a', for each of its subclasses that is not
\* obsolete, the index of the subclass to rows and the index of the term to
\* cols; to 'part_of', for each of its targets that is not obsolete, the
\* index of the term to rows and the index of the target to cols.  The
\* subclasses and the targets are taken in id order.
term_index_containers(term, o, lut) ==
    LET kept == extract_terms(subclasses(o.subclass_of, term) \ o.obsolete)
        targets == extract_terms(relationship_targets(o.relationships, term) \ o.obsolete)
    IN  [ is_a |->
            [ rows |-> [ k \in 1..Len(kept) |-> lut.lut_term_to_index[kept[k]] ],
              cols |-> [ k \in 1..Len(kept) |-> lut.lut_term_to_index[term] ] ],
          part_of |->
            [ rows |-> [ k \in 1..Len(targets) |-> lut.lut_term_to_index[term] ],
              cols |-> [ k \in 1..Len(targets) |-> lut.lut_term_to_index[targets[k]] ] ] ]

\* The loop of _populate_index_containers over the indexed terms.
RECURSIVE populate_loop(_, _, _)
populate_loop(terms, o, lut) ==
    IF terms = <<>>
    THEN [ rel \in {"is_a", "part_of"} |-> [ rows |-> <<>>, cols |-> <<>> ] ]
    ELSE LET first == term_index_containers(Head(terms), o, lut)
             rest == populate_loop(Tail(terms), o, lut)
         IN  [ rel \in {"is_a", "part_of"} |->
                 [ rows |-> first[rel].rows \o rest[rel].rows,
                   cols |-> first[rel].cols \o rest[rel].cols ] ]

\* _populate_index_containers with rows and cols exchanged.
populate_index_containers_swapped(terms, o, lut) ==
    LET filled == populate_loop(terms, o, lut)
    IN  [ rel \in create_edges_index_containers(terms, o) |->
            [ rows |-> filled[rel].cols, cols |-> filled[rel].rows ] ]

populate_index_containers(terms, o, lut) ==
    LET filled == populate_loop(terms, o, lut)
    IN  [ rel \in create_edges_index_containers(terms, o) |-> filled[rel] ]

\* Matrix.from_coo: the entries stored are the pairs of the two arrays.
create_graphblas_matrix(rows_indexes, cols_indexes) ==
    { <<rows_indexes[k], cols_indexes[k]>> : k \in 1..Len(rows_indexes) }

create_multiple_matrices(edge_container) ==
    [ relation \in DOMAIN edge_container |->
        create_graphblas_matrix(edge_container[relation].rows,
                                edge_container[relation].cols) ]

\* ------------------------------------------------------------------------
\* Lookup tables
\* ------------------------------------------------------------------------
get_lut_term_to_index == DOMAIN lookup_tables.lut_term_to_index

term_to_index(term_id) == lookup_tables.lut_term_to_index[term_id]

index_to_term(index) == lookup_tables.lut_index_to_term[index + 1]

index_to_term_list(indexes) == { index_to_term(i) : i \in indexes }

\* ------------------------------------------------------------------------
\* Sparse linear algebra
\* ------------------------------------------------------------------------
Indices == 0..(number_nodes - 1)

is_a == matrices_container.is_a

T(M) == { <<e[2], e[1]>> : e \in M }

one_hot_vector(index) == {index}

\* (M @ v)[i] is stored iff some j has both M[i, j] and v[j] stored.
mxv(M, v) == { i \in Indices : \E j \in v : <<i, j>> \in M }

\* reduce_columnwise: one entry per column that stores at least one value.
reduce_columnwise(M) == { j \in Indices : \E i \in Indices : <<i, j>> \in M }

\* ------------------------------------------------------------------------
\* NavigatorGraphblas
\* ------------------------------------------------------------------------
\* The loop of _traverse_graph with the limit never counted down.
RECURSIVE traverse_loop_no_countdown(_, _, _, _)
traverse_loop_no_countdown(adjacency_matrix, current_vector, visited, distance) ==
    IF current_vector # {} /\ distance # <<0>>
    THEN LET next_indices == mxv(adjacency_matrix, current_vector) \ visited
         IN  IF next_indices = {}
             THEN visited
             ELSE traverse_loop_no_countdown(adjacency_matrix,
                                             next_indices,
                                             visited \cup next_indices,
                                             distance)
    ELSE visited

\* The while loop of _traverse_graph: one call is one evaluation of the loop
\* condition followed by the loop body.
\* The loop of _traverse_graph going on only while the limit is above 0.
RECURSIVE traverse_loop_while_positive(_, _, _, _)
traverse_loop_while_positive(adjacency_matrix, current_vector, visited, distance) ==
    IF current_vector # {} /\ (distance = None \/ distance[1] > 0)
    THEN LET next_indices == mxv(adjacency_matrix, current_vector) \ visited
         IN  IF next_indices = {}
             THEN visited
             ELSE traverse_loop_while_positive(adjacency_matrix,
                                next_indices,
                                visited \cup next_indices,
                                IF distance # None
                                THEN <<distance[1] - 1>>
                                ELSE distance)
    ELSE visited

RECURSIVE traverse_loop(_, _, _, _)
traverse_loop(adjacency_matrix, current_vector, visited, distance) ==
    IF current_vector # {} /\ distance # <<0>>
    THEN LET next_indices == mxv(adjacency_matrix, current_vector) \ visited
         IN  IF next_indices = {}
             THEN visited
             ELSE traverse_loop(adjacency_matrix,
                                next_indices,
                                visited \cup next_indices,
                                IF distance # None
                                THEN <<distance[1] - 1>>
                                ELSE distance)
    ELSE visited

\* _traverse_graph seeding the visited set whatever include_self says.
traverse_graph_always_seeded(term_id, adjacency_matrix, distance, include_self) ==
    IF term_id \notin get_lut_term_to_index
    THEN Raise("KeyError")
    ELSE LET index == term_to_index(term_id)
         IN  Return(index_to_term_list(
                 traverse_loop(adjacency_matrix, one_hot_vector(index),
                               {index}, distance)))

traverse_graph(term_id, adjacency_matrix, distance, include_self) ==
    IF term_id \notin get_lut_term_to_index
    THEN Raise("KeyError")
    ELSE LET index == term_to_index(term_id)
             visited == IF include_self THEN {index} ELSE {}
         IN  Return(index_to_term_list(
                 traverse_loop(adjacency_matrix, one_hot_vector(index),
                               visited, distance)))

\* The passes of the loop of _traverse_graph, the pass that finds nothing
\* new and breaks counted with those that expand.
RECURSIVE traverse_layers_with_break(_, _, _, _)
traverse_layers_with_break(adjacency_matrix, current_vector, visited, distance) ==
    IF current_vector # {} /\ distance # <<0>>
    THEN LET next_indices == mxv(adjacency_matrix, current_vector) \ visited
         IN  IF next_indices = {}
             THEN 1
             ELSE 1 + traverse_layers_with_break(
                          adjacency_matrix,
                          next_indices,
                          visited \cup next_indices,
                          IF distance # None
                          THEN <<distance[1] - 1>>
                          ELSE distance)
    ELSE 0

\* The layers by which the loop of _traverse_graph expands the frontier
\* before it returns: its passes that reach visited.update.
RECURSIVE traverse_layers(_, _, _, _)
traverse_layers(adjacency_matrix, current_vector, visited, distance) ==
    IF current_vector # {} /\ distance # <<0>>
    THEN LET next_indices == mxv(adjacency_matrix, current_vector) \ visited
         IN  IF next_indices = {}
             THEN 0
             ELSE 1 + traverse_layers(adjacency_matrix,
                                      next_indices,
                                      visited \cup next_indices,
                                      IF distance # None
                                      THEN <<distance[1] - 1>>
                                      ELSE distance)
    ELSE 0

\* The loop of _traverse_graph_with_distance stamping a layer before the
\* counter is advanced.
RECURSIVE traverse_distance_loop_stale_counter(_, _, _, _)
traverse_distance_loop_stale_counter(adjacency_matrix, current_vector, distances, distance_counter) ==
    IF current_vector # {}
    THEN LET next_indices ==
                 mxv(adjacency_matrix, current_vector) \ DOMAIN distances
         IN  IF next_indices = {}
             THEN distances
             ELSE traverse_distance_loop_stale_counter(
                      adjacency_matrix,
                      next_indices,
                      [ idx \in DOMAIN distances \cup next_indices |->
                          IF idx \in next_indices
                          THEN distance_counter
                          ELSE distances[idx] ],
                      distance_counter + 1)
    ELSE distances

\* The while loop of _traverse_graph_with_distance; distances is the dict
\* {node_index: distance}, a function on the indices visited so far.
RECURSIVE traverse_distance_loop(_, _, _, _)
traverse_distance_loop(adjacency_matrix, current_vector, distances, distance_counter) ==
    IF current_vector # {}
    THEN LET next_indices ==
                 mxv(adjacency_matrix, current_vector) \ DOMAIN distances
         IN  IF next_indices = {}
             THEN distances
             ELSE traverse_distance_loop(
                      adjacency_matrix,
                      next_indices,
                      [ idx \in DOMAIN distances \cup next_indices |->
                          IF idx \in next_indices
                          THEN distance_counter + 1
                          ELSE distances[idx] ],
                      distance_counter + 1)
    ELSE distances

EmptyDict == [ idx \in {} |-> 0 ]

traverse_graph_with_distance(term_id, adjacency_matrix, include_self) ==
    IF term_id \notin get_lut_term_to_index
    THEN Raise("KeyError")
    ELSE LET start_index == term_to_index(term_id)
             seed == IF include_self
                     THEN [ idx \in {start_index} |-> 0 ]
                     ELSE EmptyDict
             distances == traverse_distance_loop(
                              adjacency_matrix, one_hot_vector(start_index),
                              seed, 0)
         IN  Return({ <<index_to_term(index), distances[index]>> :
                        index \in DOMAIN distances })

get_parents(term_id, include_self) ==
    IF term_id \notin get_lut_term_to_index
    THEN Raise("KeyError")
    ELSE LET index == term_to_index(term_id)
             parent_vec == mxv(T(is_a), one_hot_vector(index))
             parent_indices == IF include_self
                               THEN parent_vec \cup {index}
                               ELSE parent_vec
         IN  Return(index_to_term_list(parent_indices))

\* get_root reducing the untransposed matrix: terms without children.
get_root_untransposed ==
    LET matrix == is_a
        col_sums_vec == reduce_columnwise(matrix)
        col_sums_np == [ j \in Indices |->
                           IF j \in col_sums_vec THEN 1 ELSE 0 ]
        roots == { j \in Indices : col_sums_np[j] = 0 }
    IN  Return(index_to_term_list(roots))

get_root ==
    LET matrix == T(is_a)
        col_sums_vec == reduce_columnwise(matrix)
        col_sums_np == [ j \in Indices |->
                           IF j \in col_sums_vec THEN 1 ELSE 0 ]
        roots == { j \in Indices : col_sums_np[j] = 0 }
    IN  Return(index_to_term_list(roots))

\* get_children multiplying by the transposed matrix.
get_children_transposed(term_id, include_self) ==
    IF term_id \notin get_lut_term_to_index
    THEN Raise("KeyError")
    ELSE LET index == term_to_index(term_id)
             product == mxv(T(is_a), one_hot_vector(index))
             children_vec == IF include_self
                             THEN product \cup {index}
                             ELSE product
         IN  Return(index_to_term_list(children_vec))

get_children(term_id, include_self) ==
    IF term_id \notin get_lut_term_to_index
    THEN Raise("KeyError")
    ELSE LET index == term_to_index(term_id)
             product == mxv(is_a, one_hot_vector(index))
             children_vec == IF include_self
                             THEN product \cup {index}
                             ELSE product
         IN  Return(index_to_term_list(children_vec))

get_ancestors(term_id, distance, include_self) ==
    traverse_graph(term_id, T(is_a), distance, include_self)

get_ancestors_with_distance(term_id, include_self) ==
    traverse_graph_with_distance(term_id, T(is_a), include_self)

get_descendants(term_id, distance, include_self) ==
    traverse_graph(term_id, is_a, distance, include_self)

get_descendants_with_distance(term_id, include_self) ==
    traverse_graph_with_distance(term_id, is_a, include_self)

\* get_siblings without step 3: the term itself is never removed.
get_siblings_keeping_self(term_id, include_self) ==
    IF term_id \notin get_lut_term_to_index
    THEN Raise("KeyError")
    ELSE LET parents == get_parents(term_id, FALSE).value
             siblings_set ==
                 UNION { get_children(parent_id, FALSE).value :
                           parent_id \in parents }
         IN  IF parents = {}
             THEN Return({})
             ELSE Return(siblings_set)

get_siblings(term_id, include_self) ==
    IF term_id \notin get_lut_term_to_index
    THEN Raise("KeyError")
    ELSE LET parents == get_parents(term_id, FALSE).value
             siblings_set ==
                 UNION { get_children(parent_id, FALSE).value :
                           parent_id \in parents }
         IN  IF parents = {}
             THEN Return({})
             ELSE IF ~include_self /\ term_id \in siblings_set
                  THEN Return(siblings_set \ {term_id})
                  ELSE Return(siblings_set)

\* ------------------------------------------------------------------------
\* RelationsGraphblas
\* ------------------------------------------------------------------------
\* What attribute lookup on a RelationsGraphblas instance finds: the methods
\* the class defines and the two attributes __init__ sets.  The class does
\* not call the base __init__ and inherits only the abstract methods.
RelationsGraphblas_attributes ==
    { "is_ancestor", "is_descendant", "is_sibling",
      "get_common_ancestors", "get_lowest_common_ancestors",
      "_RelationsGraphblas__navigator", "lookup_tables" }

\* self.<name> raises AttributeError unless the instance has the attribute.
self_has(name) == name \in RelationsGraphblas_attributes

is_ancestor(ancestor_node, descendant_node) ==
    IF descendant_node \notin get_lut_term_to_index
    THEN Raise("KeyError")
    ELSE IF ancestor_node \notin get_lut_term_to_index
    THEN Raise("KeyError")
    ELSE LET ancestors == get_ancestors(descendant_node, None, FALSE).value
         IN  Return(ancestor_node \in ancestors)

is_descendant(descendant_node, ancestor_node) ==
    IF ancestor_node \notin get_lut_term_to_index
    THEN Raise("KeyError")
    ELSE IF descendant_node \notin get_lut_term_to_index
    THEN Raise("KeyError")
    ELSE IF ~self_has("get_descendants")
    THEN Raise("AttributeError")
    ELSE LET descendants == get_descendants(ancestor_node, None, FALSE).value
         IN  Return(descendant_node \in descendants)

is_sibling(node_a, node_b) ==
    IF node_a \notin get_lut_term_to_index
    THEN Raise("KeyError")
    ELSE IF node_b \notin get_lut_term_to_index
    THEN Raise("KeyError")
    ELSE IF ~self_has("get_parents")
    THEN Raise("AttributeError")
    ELSE LET parents_a == get_parents(node_a, FALSE).value
             parents_b == get_parents(node_b, FALSE).value
             shared_parents == parents_a \cap parents_b
         IN  Return(Cardinality(shared_parents) > 0)

\* The for loop of get_common_ancestors over node_ids[1:], from position k.
RECURSIVE common_ancestors_loop(_, _, _)
common_ancestors_loop(node_ids, k, common_ancestors) ==
    IF k > Len(node_ids)
    THEN Return(common_ancestors)
    ELSE LET r == get_ancestors(node_ids[k], None, FALSE)
         IN  IF r.kind = "raise"
             THEN r
             ELSE IF common_ancestors \cap r.value = {}
                  THEN Return({})
                  ELSE common_ancestors_loop(node_ids, k + 1,
                                             common_ancestors \cap r.value)

get_common_ancestors(node_ids) ==
    IF node_ids = <<>>
    THEN Return({})
    ELSE IF ~self_has("get_ancestors")
    THEN Raise("AttributeError")
    ELSE LET first == get_ancestors(node_ids[1], None, FALSE)
         IN  IF first.kind = "raise"
             THEN first
             ELSE common_ancestors_loop(node_ids, 2, first.value)

\* dict(list of (term, distance) tuples)
dict(pairs) ==
    [ t \in { q[1] : q \in pairs } |->
        (CHOOSE q \in pairs : q[1] = t)[2] ]

max(a, b) == IF a >= b THEN a ELSE b

\* The for loop of get_lowest_common_ancestors over node_ids[1:].
RECURSIVE lca_loop(_, _, _)
lca_loop(node_ids, k, lca_distances) ==
    IF k > Len(node_ids)
    THEN Return(lca_distances)
    ELSE LET r == get_ancestors_with_distance(node_ids[k], FALSE)
         IN  IF r.kind = "raise"
             THEN r
             ELSE LET ancestors_with_distance == dict(r.value)
                      common_ancestors ==
                          DOMAIN lca_distances
                              \cap DOMAIN ancestors_with_distance
                  IN  IF common_ancestors = {}
                      THEN Return(EmptyDict)
                      ELSE lca_loop(node_ids, k + 1,
                               [ idx \in common_ancestors |->
                                   max(lca_distances[idx],
                                       ancestors_with_distance[idx]) ])

get_lowest_common_ancestors(node_ids) ==
    IF node_ids = <<>>
    THEN Return({})
    ELSE IF ~self_has("get_ancestors_with_distance")
    THEN Raise("AttributeError")
    ELSE LET first == get_ancestors_with_distance(node_ids[1], FALSE)
         IN  IF first.kind = "raise"
             THEN first
             ELSE LET r == lca_loop(node_ids, 2, dict(first.value))
                  IN  IF r.kind = "raise"
                      THEN r
                      ELSE IF DOMAIN r.value = {}
                      THEN Return({})
                      ELSE LET lca_distances == r.value
                               min_distance ==
                                   CHOOSE m \in { lca_distances[a] :
                                                    a \in DOMAIN lca_distances } :
                                       \A a \in DOMAIN lca_distances :
                                           m <= lca_distances[a]
                           IN  Return({ a \in DOMAIN lca_distances :
                                          lca_distances[a] = min_distance })

\* ------------------------------------------------------------------------
\* IntrospectionGraphblas
\* ------------------------------------------------------------------------
\* max(...) over the distances of a non-empty collection.
max_of(values) == CHOOSE m \in values : \A v \in values : v <= m

\* get_distance_from_root taking the smallest of the distances.
get_distance_from_root_min(term_id) ==
    IF term_id \notin get_lut_term_to_index
    THEN Raise("KeyError")
    ELSE LET ancestors_with_distance ==
                 get_ancestors_with_distance(term_id, TRUE).value
         IN  IF ancestors_with_distance = {}
             THEN Return(0)
             ELSE Return(CHOOSE m \in { p[2] : p \in ancestors_with_distance } :
                             \A p \in ancestors_with_distance : m <= p[2])

\* get_distance_from_root measuring down to the descendants.
get_distance_from_root_descendants(term_id) ==
    IF term_id \notin get_lut_term_to_index
    THEN Raise("KeyError")
    ELSE LET ancestors_with_distance ==
                 get_descendants_with_distance(term_id, TRUE).value
         IN  IF ancestors_with_distance = {}
             THEN Return(0)
             ELSE Return(max_of({ p[2] : p \in ancestors_with_distance }))

get_distance_from_root(term_id) ==
    IF term_id \notin get_lut_term_to_index
    THEN Raise("KeyError")
    ELSE LET ancestors_with_distance ==
                 get_ancestors_with_distance(term_id, TRUE).value
         IN  IF ancestors_with_distance = {}
             THEN Return(0)
             ELSE Return(max_of({ p[2] : p \in ancestors_with_distance }))

\* The stored indices of a sparse vector, in the ascending order to_coo()
\* lists them in.
RECURSIVE to_coo(_)
to_coo(vector) ==
    IF vector = {}
    THEN <<>>
    ELSE LET i == CHOOSE i \in vector : \A j \in vector : i <= j
         IN  <<i>> \o to_coo(vector \ {i})

\* index_to_term of a list of indices.
index_to_term_path(path) == [ k \in 1..Len(path) |-> index_to_term(path[k]) ]

\* The while loop of get_path_between: queue holds the paths still to be
\* extended, visited the indices already put on some path.
RECURSIVE path_between_loop(_, _, _, _)
path_between_loop(adjacency_matrix, end_idx, queue, visited) ==
    IF queue = <<>>
    THEN <<>>
    ELSE LET path == Head(queue)
             current == path[Len(path)]
         IN  IF current = end_idx
             THEN index_to_term_path(path)
             ELSE LET neighbors ==
                          to_coo(mxv(adjacency_matrix, one_hot_vector(current)))
                      unvisited == SelectSeq(neighbors, LAMBDA n : n \notin visited)
                  IN  path_between_loop(
                          adjacency_matrix, end_idx,
                          Tail(queue)
                              \o [ k \in 1..Len(unvisited) |->
                                     Append(path, unvisited[k]) ],
                          visited \cup { unvisited[k] : k \in 1..Len(unvisited) })

\* The breadth-first search of get_path_between from start to end.
path_between_search(start, end) ==
    LET start_idx == term_to_index(start)
        end_idx == term_to_index(end)
    IN  Return(path_between_loop(is_a, end_idx, << <<start_idx>> >>, {start_idx}))

get_path_between(node_a, node_b) ==
    IF node_a \notin get_lut_term_to_index
    THEN Raise("KeyError")
    ELSE IF node_b \notin get_lut_term_to_index
    THEN Raise("KeyError")
    ELSE IF is_ancestor(node_a, node_b).value
    THEN path_between_search(node_a, node_b)
    ELSE LET descendant == is_descendant(node_a, node_b)
         IN  IF descendant.kind = "raise"
             THEN descendant
             ELSE IF ~descendant.value
             THEN Return(<<>>)
             ELSE path_between_search(node_b, node_a)

reversed(seq) == [ k \in 1..Len(seq) |-> seq[Len(seq) + 1 - k] ]

\* One finished path as a trajectory: enumerate() numbers the path from
\* its first index on.  The 'name' of an item is the description the lookup
\* tables hold for its id and is not kept.
trajectory(path) ==
    [ k \in 1..Len(path) |->
        [ id |-> index_to_term(path[k]), distance |-> k - 1 ] ]

\* The loop of get_trajectories_from_root following the first parent only.
RECURSIVE trajectories_loop_first_parent(_, _, _)
trajectories_loop_first_parent(root_indices, queue, trajectories) ==
    IF queue = <<>>
    THEN trajectories
    ELSE LET path == Head(queue)
             current_idx == path[1]
             parent_indices ==
                 to_coo(mxv(T(is_a), one_hot_vector(current_idx)))
         IN  IF parent_indices = <<>> \/ current_idx \in root_indices
             THEN trajectories_loop_first_parent(
                      root_indices, Tail(queue),
                      Append(trajectories,
                             reversed(trajectory(reversed(reversed(path))))))
             ELSE LET p == parent_indices[1]
                  IN  trajectories_loop_first_parent(
                          root_indices,
                          IF p \in { path[k] : k \in 1..Len(path) }
                          THEN Tail(queue)
                          ELSE Tail(queue) \o << <<p>> \o path >>,
                          trajectories)

\* The while loop of get_trajectories_from_root: a path is kept with its
\* topmost index first and is finished when that index has no parent.
RECURSIVE trajectories_loop(_, _, _)
trajectories_loop(root_indices, queue, trajectories) ==
    IF queue = <<>>
    THEN trajectories
    ELSE LET path == Head(queue)
             current_idx == path[1]
             parent_indices ==
                 to_coo(mxv(T(is_a), one_hot_vector(current_idx)))
         IN  IF parent_indices = <<>> \/ current_idx \in root_indices
             THEN trajectories_loop(
                      root_indices, Tail(queue),
                      Append(trajectories,
                             reversed(trajectory(reversed(reversed(path))))))
             ELSE LET unseen ==
                          SelectSeq(parent_indices,
                                    LAMBDA p :
                                        p \notin { path[k] : k \in 1..Len(path) })
                  IN  trajectories_loop(
                          root_indices,
                          Tail(queue)
                              \o [ k \in 1..Len(unseen) |-> <<unseen[k]>> \o path ],
                          trajectories)

get_trajectories_from_root(term_id) ==
    IF term_id \notin get_lut_term_to_index
    THEN Raise("KeyError")
    ELSE LET term_idx == term_to_index(term_id)
             roots == get_root.value
             root_indices == { term_to_index(r) : r \in roots }
             trajectories ==
                 trajectories_loop(root_indices, << <<term_idx>> >>, <<>>)
         IN  Return([ k \in 1..Len(trajectories) |-> reversed(trajectories[k]) ])

\* ------------------------------------------------------------------------
\* The object-graph backend (NavigatorPronto, RelationsPronto,
\* IntrospectionPronto) over the same parsed source
\* ------------------------------------------------------------------------
\* The terms one is-a statement above (up) or below the terms of S.
pronto_step(S, up) ==
    { IF up THEN e[2] ELSE e[1] :
        e \in { d \in ontology.subclass_of :
                  IF up THEN d[1] \in S ELSE d[2] \in S } }

\* The walk of term.superclasses() / term.subclasses(): done holds the
\* start term and every term met, distance the edges still allowed.
RECURSIVE pronto_lineage(_, _, _, _)
pronto_lineage(frontier, done, distance, up) ==
    IF frontier = {} \/ distance = <<0>>
    THEN done
    ELSE LET next == pronto_step(frontier, up) \ done
         IN  pronto_lineage(next, done \cup next,
                            IF distance # None
                            THEN <<distance[1] - 1>>
                            ELSE distance,
                            up)

pronto_superclasses(term, distance, with_self) ==
    LET met == pronto_lineage({term}, {term}, distance, TRUE)
    IN  IF with_self THEN met ELSE met \ {term}

pronto_subclasses(term, distance, with_self) ==
    LET met == pronto_lineage({term}, {term}, distance, FALSE)
    IN  IF with_self THEN met ELSE met \ {term}

pronto_get_parents(term_id, include_self) ==
    IF term_id \notin ontology.terms
    THEN Return({})
    ELSE Return(pronto_superclasses(term_id, <<1>>, include_self))

pronto_get_children(term_id, include_self) ==
    IF term_id \notin ontology.terms
    THEN Return({})
    ELSE Return(pronto_subclasses(term_id, <<1>>, include_self))

pronto_get_ancestors(term_id, distance, include_self) ==
    IF term_id \notin ontology.terms
    THEN Return({})
    ELSE Return(pronto_superclasses(term_id, distance, include_self))

pronto_get_descendants(term_id, distance, include_self) ==
    IF term_id \notin ontology.terms
    THEN Return({})
    ELSE LET descendant_ids == pronto_subclasses(term_id, distance, TRUE)
         IN  IF ~include_self /\ term_id \in descendant_ids
             THEN Return(descendant_ids \ {term_id})
             ELSE Return(descendant_ids)

pronto_get_siblings(term_id, include_self) ==
    IF term_id \notin ontology.terms
    THEN Return({})
    ELSE LET siblings ==
                 UNION { pronto_subclasses(parent, <<1>>, FALSE) :
                           parent \in pronto_superclasses(term_id, <<1>>, FALSE) }
         IN  IF ~include_self /\ term_id \in siblings
             THEN Return(siblings \ {term_id})
             ELSE Return(siblings)

\* The root terms in the order ontology.terms() lists them in, taken to be
\* the order of the ids.
pronto_get_root ==
    Return(extract_terms({ term \in ontology.terms :
                             pronto_superclasses(term, <<1>>, FALSE) = {} }))

\* The queue of NavigatorPronto.get_ancestors_with_distance, one distance
\* at a time: a term is yielded the first time it leaves the queue.
RECURSIVE pronto_ancestors_distance_loop(_, _, _)
pronto_ancestors_distance_loop(frontier, visited, dist) ==
    LET fresh == frontier \ visited
    IN  IF fresh = {}
        THEN {}
        ELSE { <<current_term, dist>> : current_term \in fresh }
               \cup pronto_ancestors_distance_loop(
                        pronto_step(fresh, TRUE), visited \cup fresh, dist - 1)

pronto_get_ancestors_with_distance(term_id, include_self) ==
    IF term_id \notin ontology.terms
    THEN Return({})
    ELSE IF include_self
    THEN Return(pronto_ancestors_distance_loop({term_id}, {}, 0))
    ELSE Return(pronto_ancestors_distance_loop(
                    pronto_superclasses(term_id, <<1>>, TRUE) \ {term_id},
                    {}, -1))

pronto_get_common_ancestors(node_ids) ==
    IF node_ids = <<>>
    THEN Return({})
    ELSE Return({ a \in ontology.terms :
                    \A k \in 1..Len(node_ids) :
                        a \in pronto_get_ancestors(node_ids[k], None, TRUE).value })

\* float('inf'): above every distance, which is below the number of terms.
inf == NumIds

\* The queue of _get_distance_to_ancestor, one distance at a time.
RECURSIVE distance_to_ancestor_loop(_, _, _, _)
distance_to_ancestor_loop(ancestor, frontier, visited, dist) ==
    IF frontier = {}
    THEN inf
    ELSE IF ancestor \in frontier
    THEN dist
    ELSE distance_to_ancestor_loop(
             ancestor,
             pronto_step(frontier, TRUE) \ (visited \cup frontier),
             visited \cup frontier,
             dist + 1)

get_distance_to_ancestor(node, ancestor) ==
    IF node \notin ontology.terms
    THEN Raise("KeyError")
    ELSE Return(distance_to_ancestor_loop(ancestor, {node}, {}, 0))

pronto_get_distance_from_root(term_id) ==
    IF term_id \notin ontology.terms
    THEN Raise("KeyError")
    ELSE IF pronto_get_root.value = <<>>
    THEN Return(None)
    ELSE LET root == pronto_get_root.value[1]
         IN  get_distance_to_ancestor(term_id, root)

\* ------------------------------------------------------------------------
\* Inputs
\* ------------------------------------------------------------------------
Distances == {None} \cup { <<k>> : k \in -1..MaxDistance }

NodeIdLists == UNION { [1..n -> Ids] : n \in 0..MaxIds }

\* ------------------------------------------------------------------------
\* Init: a client after load(source, backend='graphblas')
\* ------------------------------------------------------------------------
\* The sets of at most k of the pairs in S, each built by adding its pairs
\* in order.
RECURSIVE SubsetsUpTo(_, _)
SubsetsUpTo(S, k) ==
    IF k = 0 THEN {{}}
    ELSE LET smaller == SubsetsUpTo(S, k - 1)
             later == { x \in smaller \X S :
                          \A d \in x[1] :
                              \/ d[1] < x[2][1]
                              \/ d[1] = x[2][1] /\ d[2] < x[2][2] }
         IN  smaller \cup { x[1] \cup {x[2]} : x \in later }

\* The parsed sources: a non-empty set of terms with is-a statements
\* <<child, parent>> between different terms.  Every relation of at most
\* MaxEdges statements is drawn (cycles included), and every relation, of
\* any size, whose statements lead from a term to a term that sorts before
\* it (each acyclic ontology is one of these up to the naming of its terms).
Ontologies(terms) ==
    { [ terms |-> terms, subclass_of |-> r, relationships |-> {}, obsolete |-> {} ] :
        r \in SubsetsUpTo({ e \in terms \X terms : e[1] # e[2] }, MaxEdges)
                \cup SUBSET { e \in terms \X terms : e[1] > e[2] } }

create_graphblas_ontology(o, include_obsolete) ==
    LET terms == extract_terms({ t \in o.terms :
                                   include_obsolete \/ t \notin o.obsolete })
        lut == LookUpTables(terms)
        edges == populate_index_containers(terms, o, lut)
    IN  [ lookup_tables |-> lut,
          number_nodes |-> Len(terms),
          edges_indices |-> edges,
          matrices_container |-> create_multiple_matrices(edges) ]

\* The client's fields as one record.
client == [ ontology |-> ontology, lookup_tables |-> lookup_tables, number_nodes |-> number_nodes, edges_indices |-> edges_indices, matrices_container |-> matrices_container, navigator |-> navigator, relations |-> relations, introspection |-> introspection, loads |-> loads ]

\* _initialize_queries building the navigator alone.
initialize_queries_navigator_only(backend, built) ==
    IF backend = "pronto"
    THEN [ navigator |-> [ class |-> "NavigatorPronto", load |-> built ],
           relations |-> relations, introspection |-> introspection ]
    ELSE IF backend = "graphblas"
    THEN [ navigator |-> [ class |-> "NavigatorGraphblas", load |-> built ],
           relations |-> relations, introspection |-> introspection ]
    ELSE [ navigator |-> navigator, relations |-> relations,
           introspection |-> introspection ]

\* _initialize_queries: the three adapters of a backend.  An adapter is its
\* class and the successful load, counted from 1, whose ontology and lookup
\* tables it was built over.  For a backend that is neither, the adapters
\* stay as they are.
initialize_queries(backend, built) ==
    IF backend = "pronto"
    THEN [ navigator |-> [ class |-> "NavigatorPronto", load |-> built ],
           relations |-> [ class |-> "RelationsPronto", load |-> built ],
           introspection |-> [ class |-> "IntrospectionPronto", load |-> built ] ]
    ELSE IF backend = "graphblas"
    THEN [ navigator |-> [ class |-> "NavigatorGraphblas", load |-> built ],
           relations |-> [ class |-> "RelationsGraphblas", load |-> built ],
           introspection |-> [ class |-> "IntrospectionGraphblas", load |-> built ] ]
    ELSE [ navigator |-> navigator, relations |-> relations,
           introspection |-> introspection ]

\* With the object-graph backend there is no Graph and no lookup table:
\* their variables hold the empty values.
NoLookUpTables == LookUpTables(<<>>)

NoGraph == [ number_nodes |-> 0, edges_indices |-> [ rel \in {"is_a"} |-> [ rows |-> <<>>, cols |-> <<>> ] ], matrices_container |-> [ rel \in {"is_a"} |-> {} ] ]

\* load that takes every backend other than 'graphblas' for 'pronto' when it
\* assigns the ontology.
load_without_backend_check(o, include_obsolete, backend, succeeded) ==
    LET g == IF backend = "graphblas"
             THEN create_graphblas_ontology(o, include_obsolete)
             ELSE [ lookup_tables |-> NoLookUpTables ] @@ NoGraph
        q == initialize_queries(backend, Len(succeeded) + 1)
    IN  [ ontology |-> o,
          lookup_tables |-> g.lookup_tables,
          number_nodes |-> g.number_nodes,
          edges_indices |-> g.edges_indices,
          matrices_container |-> g.matrices_container,
          navigator |-> q.navigator,
          relations |-> q.relations,
          introspection |-> q.introspection,
          loads |-> IF backend \in {"pronto", "graphblas"}
                    THEN Append(succeeded, backend) ELSE succeeded ]

\* What load(source, include_obsolete=..., backend=...) leaves in the
\* client's fields when the source o is found; succeeded is the successful
\* loads before this one.  An unknown backend raises before anything is
\* assigned.
load(o, include_obsolete, backend, succeeded) ==
    IF backend \notin {"pronto", "graphblas"}
    THEN client
    ELSE LET g == IF backend = "graphblas"
                  THEN create_graphblas_ontology(o, include_obsolete)
                  ELSE [ lookup_tables |-> NoLookUpTables ] @@ NoGraph
             q == initialize_queries(backend, Len(succeeded) + 1)
         IN  [ ontology |-> o,
               lookup_tables |-> g.lookup_tables,
               number_nodes |-> g.number_nodes,
               edges_indices |-> g.edges_indices,
               matrices_container |-> g.matrices_container,
               navigator |-> q.navigator,
               relations |-> q.relations,
               introspection |-> q.introspection,
               loads |-> Append(succeeded, backend) ]

\* The client's fields are those of the record c.
client_is(c) ==
    /\ ontology = c.ontology
    /\ lookup_tables = c.lookup_tables
    /\ number_nodes = c.number_nodes
    /\ edges_indices = c.edges_indices
    /\ matrices_container = c.matrices_container
    /\ navigator = c.navigator
    /\ relations = c.relations
    /\ introspection = c.introspection
    /\ loads = c.loads

\* The threads that query one client, and a thread that is in no call.
Threads == {"thread_a", "thread_b"}

Idle == [ pc |-> "idle" ]

NoThreads == [ th \in Threads |-> Idle ]

\* A client on which load(o, backend='graphblas') has succeeded, with no
\* query issued yet.
Init ==
    /\ \E terms \in SUBSET Ids \ {{}} :
          \E c \in { load(o, FALSE, "graphblas", <<>>) : o \in Ontologies(terms) } :
              client_is(c)
    /\ call = NoCall
    /\ result = NoResult
    /\ threads = NoThreads

\* Sources that may have an obsolete term: the terms are 1..n, at most one
\* of them obsolete and at least one not, with at most MaxEdges statements,
\* all of them is-a statements but for at most one, which states 'part_of'
\* of the last term and the first.
OntologiesWithObsolete(n, obs) ==
    { [ terms |-> 1..n, subclass_of |-> rr[1], relationships |-> rr[2], obsolete |-> obs ] :
        rr \in (SubsetsUpTo({ e \in (1..n) \X (1..n) : e[1] # e[2] }, MaxEdges)
                  \X {{}})
               \cup
               (SubsetsUpTo({ e \in (1..n) \X (1..n) : e[1] # e[2] }, MaxEdges - 1)
                  \X { {<<t, 1>>} : t \in {n} \ {1} }) }

\* A client on which load(o, include_obsolete=..., backend='graphblas') has
\* succeeded, for a source that may have obsolete terms.
InitConstruction ==
    /\ \E n \in 1..NumIds :
          \E obs \in { obs \in {{}} \cup { {t} : t \in 1..n } : obs # 1..n } :
              \E c \in { load(a[1], a[2], "graphblas", <<>>) :
                           a \in OntologiesWithObsolete(n, obs) \X BOOLEAN } :
                  client_is(c)
    /\ call = NoCall
    /\ result = NoResult
    /\ threads = NoThreads

\* ------------------------------------------------------------------------
\* Actions: one per query of the client; the caller issues one query at a
\* time and takes its outcome before the next.
\* ------------------------------------------------------------------------
Query(c, r) ==
    /\ call = NoCall
    /\ call' = c
    /\ result' = r
    /\ UNCHANGED <<client_vars, threads>>

GetParents ==
    \E term_id \in Ids, include_self \in BOOLEAN :
        Query([op |-> "get_parents", term_id |-> term_id,
               include_self |-> include_self],
              get_parents(term_id, include_self))

GetChildren ==
    \E term_id \in Ids, include_self \in BOOLEAN :
        Query([op |-> "get_children", term_id |-> term_id,
               include_self |-> include_self],
              get_children(term_id, include_self))

GetAncestors ==
    \E term_id \in Ids, distance \in Distances, include_self \in BOOLEAN :
        Query([op |-> "get_ancestors", term_id |-> term_id,
               distance |-> distance, include_self |-> include_self],
              get_ancestors(term_id, distance, include_self))

GetDescendants ==
    \E term_id \in Ids, distance \in Distances, include_self \in BOOLEAN :
        Query([op |-> "get_descendants", term_id |-> term_id,
               distance |-> distance, include_self |-> include_self],
              get_descendants(term_id, distance, include_self))

GetAncestorsWithDistance ==
    \E term_id \in Ids, include_self \in BOOLEAN :
        Query([op |-> "get_ancestors_with_distance", term_id |-> term_id,
               include_self |-> include_self],
              get_ancestors_with_distance(term_id, include_self))

GetDescendantsWithDistance ==
    \E term_id \in Ids, include_self \in BOOLEAN :
        Query([op |-> "get_descendants_with_distance", term_id |-> term_id,
               include_self |-> include_self],
              get_descendants_with_distance(term_id, include_self))

GetSiblings ==
    \E term_id \in Ids, include_self \in BOOLEAN :
        Query([op |-> "get_siblings", term_id |-> term_id,
               include_self |-> include_self],
              get_siblings(term_id, include_self))

\* self._navigator.get_root() of the client, whichever its navigator is.
navigator_get_root ==
    IF navigator.class = "NavigatorGraphblas" THEN get_root
    ELSE IF navigator.class = "NavigatorPronto" THEN pronto_get_root
    ELSE Raise("AttributeError")

GetRoot ==
    Query([op |-> "get_root"], navigator_get_root)

IsAncestor ==
    \E ancestor_node \in Ids, descendant_node \in Ids :
        Query([op |-> "is_ancestor", ancestor_node |-> ancestor_node,
               descendant_node |-> descendant_node],
              is_ancestor(ancestor_node, descendant_node))

IsDescendant ==
    \E descendant_node \in Ids, ancestor_node \in Ids :
        Query([op |-> "is_descendant", descendant_node |-> descendant_node,
               ancestor_node |-> ancestor_node],
              is_descendant(descendant_node, ancestor_node))

IsSibling ==
    \E node_a \in Ids, node_b \in Ids :
        Query([op |-> "is_sibling", node_a |-> node_a, node_b |-> node_b],
              is_sibling(node_a, node_b))

GetCommonAncestors ==
    \E node_ids \in NodeIdLists :
        Query([op |-> "get_common_ancestors", node_ids |-> node_ids],
              get_common_ancestors(node_ids))

GetLowestCommonAncestors ==
    \E node_ids \in NodeIdLists :
        Query([op |-> "get_lowest_common_ancestors", node_ids |-> node_ids],
              get_lowest_common_ancestors(node_ids))

GetDistanceFromRoot ==
    \E term_id \in Ids :
        Query([op |-> "get_distance_from_root", term_id |-> term_id],
              get_distance_from_root(term_id))

GetPathBetween ==
    \E node_a \in Ids, node_b \in Ids :
        Query([op |-> "get_path_between", node_a |-> node_a, node_b |-> node_b],
              get_path_between(node_a, node_b))

GetTrajectoriesFromRoot ==
    \E term_id \in Ids :
        Query([op |-> "get_trajectories_from_root", term_id |-> term_id],
              get_trajectories_from_root(term_id))

\* The caller has taken the outcome of its query.
Done ==
    /\ call # NoCall
    /\ call' = NoCall
    /\ result' = NoResult
    /\ UNCHANGED <<client_vars, threads>>

Next ==
    \/ GetParents
    \/ GetChildren
    \/ GetAncestors
    \/ GetDescendants
    \/ GetAncestorsWithDistance
    \/ GetDescendantsWithDistance
    \/ GetSiblings
    \/ GetRoot
    \/ IsAncestor
    \/ IsDescendant
    \/ IsSibling
    \/ GetCommonAncestors
    \/ GetLowestCommonAncestors
    \/ GetDistanceFromRoot
    \/ GetPathBetween
    \/ GetTrajectoriesFromRoot
    \/ Done

Spec == Init /\ [][Next]_vars

\* A caller that uses only the queries answered by traversing the matrix:
\* the navigator's and the two introspection queries built on it alone.
NextTraversal ==
    \/ GetParents
    \/ GetChildren
    \/ GetAncestors
    \/ GetDescendants
    \/ GetAncestorsWithDistance
    \/ GetDescendantsWithDistance
    \/ GetSiblings
    \/ GetRoot
    \/ GetDistanceFromRoot
    \/ GetTrajectoriesFromRoot
    \/ Done

SpecTraversal == Init /\ [][NextTraversal]_vars

\* ClientOntology(): nothing is loaded.
NoOntology == [ terms |-> {}, subclass_of |-> {}, relationships |-> {}, obsolete |-> {} ]

NoAdapter == [ class |-> "NoneType", load |-> 0 ]

InitClient ==
    /\ ontology = NoOntology
    /\ lookup_tables = NoLookUpTables
    /\ number_nodes = NoGraph.number_nodes
    /\ edges_indices = NoGraph.edges_indices
    /\ matrices_container = NoGraph.matrices_container
    /\ navigator = NoAdapter
    /\ relations = NoAdapter
    /\ introspection = NoAdapter
    /\ loads = <<>>
    /\ call = NoCall
    /\ result = NoResult
    /\ threads = NoThreads

\* The sources a client is made to load one after another: the terms are
\* 1..n for n up to MaxSmallTerms, at most one of them obsolete and at least
\* one not, with at most one statement, 'is_a' of any two terms or 'part_of' of the last term and
\* the first.
SmallOntologies ==
    UNION { { [ terms |-> 1..n, subclass_of |-> rr[1], relationships |-> rr[2], obsolete |-> obs ] :
                rr \in ({ {e} : e \in { e \in (1..n) \X (1..n) : e[1] # e[2] } } \X {{}})
                         \cup ({{}} \X ({{}} \cup { {<<t, 1>>} : t \in {n} \ {1} })),
                obs \in { obs \in {{}} \cup { {t} : t \in 1..n } :
                            obs # 1..n } } :
            n \in 1..MaxSmallTerms }

Backends == {"pronto", "graphblas", "networkx"}

\* load(source, include_obsolete=..., backend=...).  A source that is no
\* file, no URL and no catalog entry raises FileNotFoundError; an unknown
\* backend raises ValueError after the source was read.
LoadFound(o, include_obsolete, backend) ==
    /\ call = NoCall
    /\ backend \in {"pronto", "graphblas"} => Len(loads) < MaxLoads
    /\ call' = [op |-> "load", source |-> o,
                include_obsolete |-> include_obsolete, backend |-> backend]
    /\ result' = IF backend \in {"pronto", "graphblas"}
                 THEN Return(None) ELSE Raise("ValueError")
    /\ \E c \in { load(o, include_obsolete, backend, loads) } :
          /\ ontology' = c.ontology
          /\ lookup_tables' = c.lookup_tables
          /\ number_nodes' = c.number_nodes
          /\ edges_indices' = c.edges_indices
          /\ matrices_container' = c.matrices_container
          /\ navigator' = c.navigator
          /\ relations' = c.relations
          /\ introspection' = c.introspection
          /\ loads' = c.loads
    /\ UNCHANGED threads

LoadNotFound(include_obsolete, backend) ==
    /\ call = NoCall
    /\ call' = [op |-> "load", source |-> NoOntology,
                include_obsolete |-> include_obsolete, backend |-> backend]
    /\ result' = Raise("FileNotFoundError")
    /\ UNCHANGED <<client_vars, threads>>

Load ==
    \E include_obsolete \in BOOLEAN, backend \in Backends :
        \/ \E o \in SmallOntologies : LoadFound(o, include_obsolete, backend)
        \/ LoadNotFound(include_obsolete, backend)

\* A caller that loads one source after another into one client and asks
\* for the roots in between.
NextLoad ==
    \/ Load
    \/ GetRoot
    \/ Done

SpecLoad == InitClient /\ [][NextLoad]_vars

\* Sources whose is-a statements may be cyclic or state a term to be its own
\* subclass, which gives an entry on the diagonal of the matrix: the terms
\* are 1..n, with at most MaxEdges statements between any of them.
OntologiesWithSelfLoops(n) ==
    { [ terms |-> 1..n, subclass_of |-> r, relationships |-> {}, obsolete |-> {} ] :
        r \in SubsetsUpTo((1..n) \X (1..n), MaxEdges) }

InitTermination ==
    /\ \E n \in 1..NumIds :
          \E c \in { load(o, FALSE, "graphblas", <<>>) :
                       o \in OntologiesWithSelfLoops(n) } :
              client_is(c)
    /\ call = NoCall
    /\ result = NoResult
    /\ threads = NoThreads

\* A caller that issues the queries that expand a frontier layer by layer.
NextTermination ==
    \/ GetAncestors
    \/ GetDescendants
    \/ GetAncestorsWithDistance
    \/ GetDescendantsWithDistance
    \/ GetTrajectoriesFromRoot
    \/ Done

SpecTermination == InitTermination /\ [][NextTermination]_vars

\* _build_tree_from_trajectories.  A Node below the root is the sequence of
\* keys that leads to it from the root through the children dicts, so that
\* the tree is its root's key and the set of these sequences; the key of an
\* item is the item ('name' is not modelled).
RECURSIVE insert_branch(_, _, _)
insert_branch(nodes, node, branch) ==
    IF branch = <<>>
    THEN nodes
    ELSE LET key == Head(branch)
             child == Append(node, key)
         IN  insert_branch(nodes \cup {child}, child, Tail(branch))

RECURSIVE build_tree_loop(_, _)
build_tree_loop(nodes, branch_lists) ==
    IF branch_lists = <<>>
    THEN nodes
    ELSE build_tree_loop(insert_branch(nodes, <<>>, Tail(Head(branch_lists))),
                         Tail(branch_lists))

build_tree_from_trajectories(trajectories) ==
    LET root_info == trajectories[1][1]
    IN  [ root |-> root_info,
          nodes |-> build_tree_loop({}, trajectories) ]

\* print_term_trajectories_tree(trajectories) for the trajectories of a
\* term of the loaded ontology; what is printed is the tree that was built.
PrintTermTrajectoriesTree ==
    \E term_id \in get_lut_term_to_index :
        LET trajectories == get_trajectories_from_root(term_id).value
        IN  Query([op |-> "print_term_trajectories_tree",
                   trajectories |-> trajectories],
                  IF trajectories = <<>>
                  THEN Return(None)
                  ELSE Return(build_tree_from_trajectories(trajectories)))

\* A caller that asks for the trajectories of terms and prints their trees.
NextTree ==
    \/ GetTrajectoriesFromRoot
    \/ PrintTermTrajectoriesTree
    \/ Done

SpecTree == Init /\ [][NextTree]_vars

\* _traverse_graph up to its loop, in a thread: the locals of the call, or
\* the KeyError it raised.
traverse_graph_enter(c) ==
    IF c.term_id \notin get_lut_term_to_index
    THEN [ pc |-> "returned", call |-> c, result |-> Raise("KeyError") ]
    ELSE LET index == term_to_index(c.term_id)
         IN  [ pc |-> "while", call |-> c,
               current_vector |-> one_hot_vector(index),
               visited |-> IF c.include_self THEN {index} ELSE {},
               distance |-> c.distance ]

\* One pass of the loop of _traverse_graph with the visited set an attribute
\* of the navigator, which all the threads update, instead of a local.
traverse_graph_pass_shared_visited(all, th) ==
    LET local == all[th]
        shared == UNION { all[other].visited :
                            other \in { o \in Threads : all[o].pc = "while" } }
        adjacency_matrix == IF local.call.op = "get_ancestors"
                            THEN T(is_a) ELSE is_a
        next_indices == mxv(adjacency_matrix, local.current_vector) \ shared
    IN  IF local.current_vector # {} /\ local.distance # <<0>>
           /\ next_indices # {}
        THEN [ local EXCEPT
                 !.visited = shared \cup next_indices,
                 !.current_vector = next_indices,
                 !.distance = IF local.distance # None
                              THEN <<local.distance[1] - 1>>
                              ELSE local.distance ]
        ELSE [ pc |-> "returned", call |-> local.call,
               result |-> Return(index_to_term_list(shared)) ]

\* One pass of the loop of _traverse_graph in the thread th, from the test
\* of the loop to the end of its body, or to the return when the loop is
\* left; all is the threads' locals.
traverse_graph_pass(all, th) ==
    LET local == all[th]
        adjacency_matrix == IF local.call.op = "get_ancestors"
                            THEN T(is_a) ELSE is_a
        next_indices == mxv(adjacency_matrix, local.current_vector)
                            \ local.visited
    IN  IF local.current_vector # {} /\ local.distance # <<0>>
           /\ next_indices # {}
        THEN [ local EXCEPT
                 !.visited = local.visited \cup next_indices,
                 !.current_vector = next_indices,
                 !.distance = IF local.distance # None
                              THEN <<local.distance[1] - 1>>
                              ELSE local.distance ]
        ELSE [ pc |-> "returned", call |-> local.call,
               result |-> Return(index_to_term_list(local.visited)) ]

\* A thread calls get_ancestors or get_descendants, without a limit or with
\* the limit 1, and gets as far as the loop.
ThreadTraverse(th) ==
    \E op \in {"get_ancestors", "get_descendants"}, term_id \in Ids, distance \in {None, <<1>>}, include_self \in BOOLEAN :
        /\ threads[th].pc = "idle"
        /\ threads' = [ threads EXCEPT ![th] =
                          traverse_graph_enter(
                              [op |-> op, term_id |-> term_id,
                               distance |-> distance,
                               include_self |-> include_self]) ]
        /\ UNCHANGED <<client_vars, call, result>>

\* A thread in the loop of _traverse_graph makes one pass.
ThreadPass(th) ==
    /\ threads[th].pc = "while"
    /\ threads' = [ threads EXCEPT ![th] = traverse_graph_pass(threads, th) ]
    /\ UNCHANGED <<client_vars, call, result>>

\* A thread calls get_children, which has no loop.
ThreadGetChildren(th) ==
    \E term_id \in Ids, include_self \in BOOLEAN :
        /\ threads[th].pc = "idle"
        /\ threads' = [ threads EXCEPT ![th] =
                          [ pc |-> "returned",
                            call |-> [op |-> "get_children",
                                      term_id |-> term_id,
                                      include_self |-> include_self],
                            result |-> get_children(term_id, include_self) ] ]
        /\ UNCHANGED <<client_vars, call, result>>

\* A thread takes the outcome of its call.
ThreadDone(th) ==
    /\ threads[th].pc = "returned"
    /\ threads' = [ threads EXCEPT ![th] = Idle ]
    /\ UNCHANGED <<client_vars, call, result>>

\* The small sources the threads query: the terms are 1..n for n up to
\* MaxSmallTerms.
InitThreads ==
    /\ \E n \in 1..MaxSmallTerms :
          \E c \in { load(o, FALSE, "graphblas", <<>>) : o \in Ontologies(1..n) } :
              client_is(c)
    /\ call = NoCall
    /\ result = NoResult
    /\ threads = NoThreads

NextThreads ==
    \E th \in Threads :
        \/ ThreadTraverse(th)
        \/ ThreadPass(th)
        \/ ThreadGetChildren(th)
        \/ ThreadDone(th)

SpecThreads == InitThreads /\ [][NextThreads]_vars

\* A caller that looks at the children of a term and at the roots of an
\* ontology loaded from a source with obsolete terms.
NextConstruction ==
    \/ GetChildren
    \/ GetRoot
    \/ Done

SpecConstruction == InitConstruction /\ [][NextConstruction]_vars

\* ------------------------------------------------------------------------
\* The is-a relation read off the matrix, independently of the traversals
\* ------------------------------------------------------------------------
Known == get_lut_term_to_index

\* Entry (c, p) of the is-a matrix is stored.
IsA(c, p) == <<term_to_index(c), term_to_index(p)>> \in is_a

\* One edge from every term of S: towards parents (up) or towards children.
StepSet(S, up) ==
    { y \in Known : \E x \in S : IF up THEN IsA(x, y) ELSE IsA(y, x) }

\* The terms at the end of a walk of exactly n edges from a term of S.
RECURSIVE ExactlyN(_, _, _)
ExactlyN(S, n, up) ==
    IF n = 0 THEN S ELSE ExactlyN(StepSet(S, up), n - 1, up)

\* The terms at the end of a walk of between 1 and k edges from a term of S.
RECURSIVE WithinSteps(_, _, _)
WithinSteps(S, k, up) ==
    IF k = 0 \/ S = {}
    THEN {}
    ELSE StepSet(S, up) \cup WithinSteps(StepSet(S, up), k - 1, up)

\* The terms reachable from t by between 1 and k edges.
WithinK(t, k, up) == WithinSteps({t}, k, up)

\* Every reachable term is reachable by at most number_nodes edges.
Reachable(t, up) == WithinK(t, number_nodes, up)

\* No term is its own ancestor: equivalently, no walk has as many edges as
\* there are terms.
Acyclic == ExactlyN(Known, number_nodes, TRUE) = {}

\* The number of edges of a shortest path from t to y, for y in Reachable.
ShortestDistance(t, y, up) ==
    CHOOSE n \in 1..number_nodes :
        /\ y \in ExactlyN({t}, n, up)
        /\ \A m \in 1..(n - 1) : y \notin ExactlyN({t}, m, up)

Returned == result.kind = "return"

\* ------------------------------------------------------------------------
\* Claims
\* ------------------------------------------------------------------------

\* C1: parent/child duality.  Whenever get_children(x, include_self=False)
\* has returned, a known term y is in the result iff x is in
\* get_parents(y, include_self=False); and whenever get_parents(y) has
\* returned, a known term x is in the result iff y is in get_children(x).
C1_ParentChildDuality ==
    /\ (call.op = "get_children" /\ call.term_id \in Known
            /\ ~call.include_self)
         => /\ Returned
            /\ \A y \in Known :
                   y \in result.value
                     <=> call.term_id \in get_parents(y, FALSE).value
    /\ (call.op = "get_parents" /\ call.term_id \in Known
            /\ ~call.include_self)
         => /\ Returned
            /\ \A x \in Known :
                   x \in result.value
                     <=> call.term_id \in get_children(x, FALSE).value

\* A term with a child and a non-child: get_children returned a non-empty
\* proper subset of the other known terms.
C1_Witness ==
    /\ call.op = "get_children" /\ call.term_id \in Known
    /\ ~call.include_self
    /\ Returned
    /\ result.value # {}
    /\ Known \ (result.value \cup {call.term_id}) # {}

\* C2: on an acyclic is-a graph, get_ancestors(t, distance=k,
\* include_self=False) of a known term returns exactly the terms reachable
\* by between 1 and k parent edges (nothing for k = 0, the parents for
\* k = 1), and every term reachable by one or more parent edges when there
\* is no limit; get_descendants does the same over child edges.
C2_TraversalWithinLimit ==
    (call.op \in {"get_ancestors", "get_descendants"}
        /\ call.term_id \in Known /\ ~call.include_self /\ Acyclic)
      => LET up == call.op = "get_ancestors"
             t == call.term_id
         IN  /\ Returned
             /\ call.distance = None => result.value = Reachable(t, up)
             /\ (call.distance # None /\ call.distance[1] >= 0)
                  => result.value = WithinK(t, call.distance[1], up)
             /\ call.distance = <<0>> => result.value = {}
             /\ call.distance = <<1>>
                  => result.value = IF up
                                    THEN get_parents(t, FALSE).value
                                    ELSE get_children(t, FALSE).value

\* A limit that cuts the traversal short: with limit 1 a grandparent exists
\* and is left out while a parent is returned.
C2_Witness ==
    /\ call.op = "get_ancestors" /\ call.term_id \in Known
    /\ ~call.include_self /\ Acyclic
    /\ call.distance = <<1>>
    /\ Returned
    /\ result.value # {}
    /\ Reachable(call.term_id, TRUE) \ result.value # {}

C4_RootInvariant ==
    call.op = "get_root"
      => /\ Returned
         /\ result.value \subseteq Known
         /\ \A id \in result.value : get_parents(id, FALSE).value = {}
         /\ \A id \in Known \ result.value :
                get_parents(id, FALSE).value # {}
         /\ \A id \in Known :
                (\A other \in Known : ~IsA(id, other) /\ ~IsA(other, id))
                  => id \in result.value

\* get_root returned a term without any edge, a root with children is
\* returned too, and some term is not a root.
C4_Witness ==
    /\ call.op = "get_root"
    /\ Returned
    /\ \E id \in result.value :
           \A other \in Known : ~IsA(id, other) /\ ~IsA(other, id)
    /\ \E id \in result.value : \E other \in Known : IsA(other, id)
    /\ Known \ result.value # {}

\* The self-inclusion half of C5, which holds on every graph: with
\* include_self=True the term is in the result of get_ancestors and
\* get_descendants, and is paired with distance 0 in the with-distance
\* variants.
SelfIncluded ==
    /\ (call.op \in {"get_ancestors", "get_descendants"}
            /\ call.term_id \in Known /\ call.include_self)
         => Returned /\ call.term_id \in result.value
    /\ (call.op \in {"get_ancestors_with_distance",
                     "get_descendants_with_distance"}
            /\ call.term_id \in Known /\ call.include_self)
         => /\ Returned
            /\ <<call.term_id, 0>> \in result.value
            /\ \A q \in result.value : q[1] = call.term_id => q[2] = 0

\* C5 as stated: for every known term id and every distance limit, id is
\* not in get_ancestors(id, include_self=False) nor in
\* get_descendants(id, include_self=False); with include_self=True id is in
\* the result, at distance 0 in the with-distance variants.
C5_SelfExclusionAnyGraph ==
    /\ (call.op \in {"get_ancestors", "get_descendants"}
            /\ call.term_id \in Known /\ ~call.include_self)
         => Returned /\ call.term_id \notin result.value
    /\ SelfIncluded

\* C5, amended: for every known term id of an acyclic is-a graph and every
\* distance limit, id is not in get_ancestors(id, include_self=False) nor in
\* get_descendants(id, include_self=False); on every graph, with
\* include_self=True id is in the result, at distance 0 in the
\* with-distance variants.
C5_SelfExclusionAcyclic ==
    /\ (call.op \in {"get_ancestors", "get_descendants"}
            /\ call.term_id \in Known /\ ~call.include_self /\ Acyclic)
         => Returned /\ call.term_id \notin result.value
    /\ SelfIncluded

\* A term with ancestors on an acyclic graph, asked without a limit and
\* without itself: the ancestors are returned, the term is not.
C5_Witness ==
    /\ call.op = "get_ancestors" /\ call.term_id \in Known
    /\ ~call.include_self /\ Acyclic
    /\ call.distance = None
    /\ Returned
    /\ result.value # {}
    /\ call.term_id \notin result.value

\* C6: ancestor/descendant duality.  For known terms x, y,
\* is_ancestor(x, y) and is_descendant(y, x) both return a boolean, the
\* same one, and false when x = y.
C6_AncestorDescendantDuality ==
    /\ (call.op = "is_ancestor" /\ call.ancestor_node \in Known
            /\ call.descendant_node \in Known)
         => LET other == is_descendant(call.descendant_node,
                                       call.ancestor_node)
            IN  /\ Returned /\ result.value \in BOOLEAN
                /\ other.kind = "return" /\ other.value = result.value
                /\ call.ancestor_node = call.descendant_node
                     => result.value = FALSE
    /\ (call.op = "is_descendant" /\ call.ancestor_node \in Known
            /\ call.descendant_node \in Known)
         => LET other == is_ancestor(call.ancestor_node,
                                     call.descendant_node)
            IN  /\ Returned /\ result.value \in BOOLEAN
                /\ other.kind = "return" /\ other.value = result.value
                /\ call.ancestor_node = call.descendant_node
                     => result.value = FALSE

\* C7: get_siblings(id, include_self) of a known term is the union of
\* get_children(p) over every parent p of id, without id unless
\* include_self is true; a term with no parents gets the empty result for
\* either value of include_self.
C7_Siblings ==
    (call.op = "get_siblings" /\ call.term_id \in Known)
      => LET id == call.term_id
             parents == get_parents(id, FALSE).value
             union == UNION { get_children(p, FALSE).value : p \in parents }
         IN  /\ Returned
             /\ result.value = IF call.include_self
                               THEN union
                               ELSE union \ {id}
             /\ parents = {} => result.value = {}

\* A term with a parent and a sibling, asked without itself: the sibling is
\* returned and the term, a child of its own parent, is not.
C7_Witness ==
    /\ call.op = "get_siblings" /\ call.term_id \in Known
    /\ ~call.include_self
    /\ Returned
    /\ result.value # {}
    /\ call.term_id \notin result.value
    /\ \E p \in get_parents(call.term_id, FALSE).value :
           call.term_id \in get_children(p, FALSE).value

\* C8: is_sibling(x, y) of known terms is true exactly when x and y are
\* different terms that share a direct parent; is_sibling(x, x) is false,
\* also for a term that has a parent.
C8_IsSibling ==
    (call.op = "is_sibling" /\ call.node_a \in Known /\ call.node_b \in Known)
      => /\ Returned
         /\ result.value =
                (/\ call.node_a # call.node_b
                 /\ \E p \in Known : IsA(call.node_a, p) /\ IsA(call.node_b, p))

\* C9: get_common_ancestors(ids) of known terms returns the intersection
\* over the ids of get_ancestors(id, include_self=False); the empty input
\* and an input whose ancestor sets do not overlap give the empty result.
C9_CommonAncestors ==
    (call.op = "get_common_ancestors"
        /\ \A k \in 1..Len(call.node_ids) : call.node_ids[k] \in Known)
      => LET ids == call.node_ids
         IN  /\ Returned
             /\ ids = <<>> => result.value = {}
             /\ ids # <<>>
                  => result.value =
                       { a \in Known :
                           \A k \in 1..Len(ids) :
                               a \in get_ancestors(ids[k], None, FALSE).value }

\* The common ancestors of a list of known terms, and for each the largest
\* shortest distance from a term of the list.
CommonAncestorsOf(ids) ==
    { a \in Known : \A k \in 1..Len(ids) : a \in Reachable(ids[k], TRUE) }

MaxDistanceTo(ids, a) ==
    CHOOSE d \in { ShortestDistance(ids[k], a, TRUE) : k \in 1..Len(ids) } :
        \A k \in 1..Len(ids) : ShortestDistance(ids[k], a, TRUE) <= d

\* C10: LCA minimality with ties.  For a non-empty list of known terms
\* with a common ancestor, get_lowest_common_ancestors returns exactly the
\* common ancestors whose maximum shortest distance from the terms of the
\* list is the smallest among all common ancestors.
C10_LowestCommonAncestors ==
    (call.op = "get_lowest_common_ancestors"
        /\ call.node_ids # <<>>
        /\ (\A k \in 1..Len(call.node_ids) : call.node_ids[k] \in Known)
        /\ CommonAncestorsOf(call.node_ids) # {})
      => LET ids == call.node_ids
             common == CommonAncestorsOf(ids)
         IN  /\ Returned
             /\ result.value =
                    { a \in common :
                        \A b \in common :
                            MaxDistanceTo(ids, a) <= MaxDistanceTo(ids, b) }

\* C11: get_lowest_common_ancestors fails with an error (ValueError, the
\* empty-ancestry error) instead of returning a value when the list of ids
\* is empty or when its known terms have no common ancestor.
C11_EmptyAncestryRaises ==
    (call.op = "get_lowest_common_ancestors"
        /\ (\A k \in 1..Len(call.node_ids) : call.node_ids[k] \in Known)
        /\ (call.node_ids = <<>> \/ CommonAncestorsOf(call.node_ids) = {}))
      => /\ result.kind = "raise"
         /\ result.value \in {"ValueError", "EmptyAncestry"}

\* A sequence of term ids that leads from anc down to desc by direct is-a
\* edges, each term a child of the one before it.
IsDownwardPath(path, anc, desc) ==
    /\ Len(path) >= 1
    /\ path[1] = anc
    /\ path[Len(path)] = desc
    /\ \A k \in 1..(Len(path) - 1) : IsA(path[k + 1], path[k])

\* C12: when one of two different known terms a, b is an ancestor of the
\* other, get_path_between(a, b) returns, whichever of the two is passed
\* first, a path that starts at the ancestor, ends at the descendant, joins
\* consecutive terms by a direct parent-to-child is-a edge, and has the
\* fewest edges of all such paths.
C12_PathBetweenEitherOrder ==
    (call.op = "get_path_between"
        /\ call.node_a \in Known /\ call.node_b \in Known
        /\ call.node_a # call.node_b
        /\ (call.node_a \in Reachable(call.node_b, TRUE)
              \/ call.node_b \in Reachable(call.node_a, TRUE)))
      => /\ Returned
         /\ \E anc \in {call.node_a, call.node_b} :
              \E desc \in {call.node_a, call.node_b} \ {anc} :
                 /\ anc \in Reachable(desc, TRUE)
                 /\ IsDownwardPath(result.value, anc, desc)
                 /\ Len(result.value) - 1 = ShortestDistance(desc, anc, TRUE)

\* C13: for every known term a, get_path_between(a, a) returns the path
\* whose only element is a.
C13_PathToItself ==
    (call.op = "get_path_between"
        /\ call.node_a \in Known /\ call.node_a = call.node_b)
      => /\ Returned
         /\ result.value = <<call.node_a>>

\* C14: for two different known terms, neither an ancestor of the other,
\* get_path_between returns the empty path: it does not raise and returns
\* no partial path.
C14_NoPathBetweenUnrelated ==
    (call.op = "get_path_between"
        /\ call.node_a \in Known /\ call.node_b \in Known
        /\ call.node_a # call.node_b
        /\ call.node_a \notin Reachable(call.node_b, TRUE)
        /\ call.node_b \notin Reachable(call.node_a, TRUE))
      => /\ Returned
         /\ result.value = <<>>

\* A root is a known term without a parent.
IsRoot(t) == \A p \in Known : ~IsA(t, p)

\* Every path from a root down to t along is-a edges, as a sequence of ids,
\* on an acyclic graph: the term alone if it is a root, else every such path
\* to one of its parents followed by the term.
RECURSIVE RootPaths(_)
RootPaths(t) ==
    IF IsRoot(t)
    THEN { <<t>> }
    ELSE UNION { { Append(path, t) : path \in RootPaths(p) } :
                   p \in { q \in Known : IsA(t, q) } }

\* The ids of a trajectory, in its order.
TrajectoryIds(traj) == [ k \in 1..Len(traj) |-> traj[k].id ]

\* C15: for every known term t of an acyclic is-a graph,
\* get_trajectories_from_root(t) holds every path from a root to t along
\* is-a edges exactly once and nothing else; so it holds at least one
\* trajectory, and for a root exactly one, made of the term alone.
C15_TrajectoriesAreTheRootPaths ==
    (call.op = "get_trajectories_from_root" /\ call.term_id \in Known
        /\ Acyclic)
      => /\ Returned
         /\ LET trajectories == result.value
                n == Len(trajectories)
            IN  /\ { TrajectoryIds(trajectories[k]) : k \in 1..n }
                      = RootPaths(call.term_id)
                /\ \A j \in 1..n : \A k \in 1..n :
                       j # k => TrajectoryIds(trajectories[j])
                                    # TrajectoryIds(trajectories[k])
                /\ n >= 1
                /\ IsRoot(call.term_id)
                     => /\ n = 1
                        /\ TrajectoryIds(trajectories[1]) = <<call.term_id>>

\* A term with two parents that both lead to the same root: its two paths
\* from the root are both returned.
C15_Witness ==
    /\ call.op = "get_trajectories_from_root"
    /\ call.term_id \in Known
    /\ Acyclic
    /\ Returned
    /\ Cardinality(RootPaths(call.term_id)) >= 2
    /\ Len(result.value) = Cardinality(RootPaths(call.term_id))
    /\ \E j \in 1..Len(result.value) : \E k \in 1..Len(result.value) :
           /\ j # k
           /\ result.value[j][1].id = result.value[k][1].id

\* C16: every trajectory of get_trajectories_from_root(t) runs from a root
\* (first) to t (last), and each of its nodes carries its signed distance
\* from t: t has distance 0, the node before it -1, and the root minus the
\* number of edges of the trajectory.
C16_SignedDistances ==
    (call.op = "get_trajectories_from_root" /\ call.term_id \in Known)
      => /\ Returned
         /\ \A j \in 1..Len(result.value) :
              LET traj == result.value[j]
              IN  /\ IsRoot(traj[1].id)
                  /\ IsDownwardPath(TrajectoryIds(traj), traj[1].id, call.term_id)
                  /\ \A k \in 1..Len(traj) : traj[k].distance = k - Len(traj)

\* The ancestors of t other than t itself.
ProperAncestors(t) == Reachable(t, TRUE) \ {t}

ParentsOf(t) == { p \in Known : IsA(t, p) }

\* C18 as stated: distance monotonicity.  For every known term id of an
\* acyclic is-a graph and every parent p of id,
\* get_distance_from_root(id) >= get_distance_from_root(p).
C18_DistanceMonotone ==
    (call.op = "get_distance_from_root" /\ call.term_id \in Known /\ Acyclic)
      => /\ Returned
         /\ \A p \in ParentsOf(call.term_id) :
                result.value >= get_distance_from_root(p).value

\* C18 amended: for every known term id of an acyclic is-a graph that has
\* exactly one parent p, get_distance_from_root(id) >=
\* get_distance_from_root(p).
C18_DistanceMonotoneSingleParent ==
    (call.op = "get_distance_from_root" /\ call.term_id \in Known /\ Acyclic
        /\ Cardinality(ParentsOf(call.term_id)) = 1)
      => /\ Returned
         /\ \A p \in ParentsOf(call.term_id) :
                result.value >= get_distance_from_root(p).value

\* A term whose only parent is itself not a root.
C18_Witness ==
    /\ call.op = "get_distance_from_root"
    /\ call.term_id \in Known
    /\ Acyclic
    /\ Returned
    /\ Cardinality(ParentsOf(call.term_id)) = 1
    /\ \E p \in ParentsOf(call.term_id) :
           /\ get_distance_from_root(p).value >= 1
           /\ result.value > get_distance_from_root(p).value

\* The term ids the current call was given.
PassedIds ==
    IF call.op \in {"get_parents", "get_children", "get_ancestors",
                    "get_descendants", "get_ancestors_with_distance",
                    "get_descendants_with_distance", "get_siblings",
                    "get_distance_from_root", "get_trajectories_from_root"}
    THEN {call.term_id}
    ELSE IF call.op \in {"is_ancestor", "is_descendant"}
    THEN {call.ancestor_node, call.descendant_node}
    ELSE IF call.op \in {"is_sibling", "get_path_between"}
    THEN {call.node_a, call.node_b}
    ELSE IF call.op \in {"get_common_ancestors", "get_lowest_common_ancestors"}
    THEN { call.node_ids[k] : k \in 1..Len(call.node_ids) }
    ELSE {}

\* C19: every operation of the matrix backend that is given a term id
\* absent from the lookup tables fails with KeyError and returns nothing,
\* neither an empty nor a partial answer.
C19_UnknownTermRaisesKeyError ==
    (PassedIds \ Known # {}) => result = Raise("KeyError")

\* C20: the two backends are interchangeable.  For every acyclic ontology
\* (none of the modelled ontologies has an obsolete term) and known terms,
\* the matrix backend returns the same set of term ids as the object-graph
\* backend for parents, children, ancestors, descendants, siblings and
\* roots, and the same answer for common_ancestors and distance_from_root.
C20_BackendsInterchangeable ==
    (Acyclic /\ PassedIds \subseteq Known)
      => /\ call.op = "get_parents"
              => result = pronto_get_parents(call.term_id, call.include_self)
         /\ call.op = "get_children"
              => result = pronto_get_children(call.term_id, call.include_self)
         /\ call.op = "get_ancestors"
              => result = pronto_get_ancestors(call.term_id, call.distance,
                                               call.include_self)
         /\ call.op = "get_descendants"
              => result = pronto_get_descendants(call.term_id, call.distance,
                                                 call.include_self)
         /\ call.op = "get_siblings"
              => result = pronto_get_siblings(call.term_id, call.include_self)
         /\ call.op = "get_root"
              => /\ Returned
                 /\ result.value
                      = { pronto_get_root.value[k] :
                            k \in 1..Len(pronto_get_root.value) }
         /\ call.op = "get_common_ancestors"
              => result = pronto_get_common_ancestors(call.node_ids)
         /\ call.op = "get_distance_from_root"
              => result = pronto_get_distance_from_root(call.term_id)

\* The with-distance pairs that a backend may report for the ancestors of t
\* under the signed convention: an ancestor k edges above t has distance
\* -k, t itself distance 0.
SignedAncestorDistances(pairs, t, include_self) ==
    /\ \A q \in pairs :
          IF q[1] = t /\ include_self
          THEN q[2] = 0
          ELSE /\ q[1] \in Reachable(t, TRUE)
               /\ q[2] = 0 - ShortestDistance(t, q[1], TRUE)
    /\ ~include_self => \A q \in pairs : q[2] < 0

\* C21: get_ancestors_with_distance reports an ancestor k edges above the
\* term with distance -k (a parent with -1), the term itself with distance
\* 0 when include_self is true, and only strictly negative distances when
\* include_self is false, with the matrix backend as with the object-graph
\* backend.
C21_NegativeAncestorDistances ==
    (call.op = "get_ancestors_with_distance" /\ call.term_id \in Known
        /\ Acyclic)
      => /\ Returned
         /\ SignedAncestorDistances(result.value, call.term_id,
                                    call.include_self)
         /\ SignedAncestorDistances(
                pronto_get_ancestors_with_distance(call.term_id,
                                                   call.include_self).value,
                call.term_id, call.include_self)

\* The terms handed to the lookup tables: every term of the source that is
\* not obsolete, and either all or none of the obsolete ones.
IndexedTerms ==
    IF ontology.obsolete \cap Known = {}
    THEN ontology.terms \ ontology.obsolete
    ELSE ontology.terms

\* C22: for every term id given to the lookup tables,
\* index_to_term(term_to_index(id)) = id; every index in [0, N) maps to
\* exactly one term id and every term id to exactly one index in [0, N),
\* where N is the number of terms; indices follow ascending term-id order.
C22_IndexRoundTrip ==
    navigator.class = "NavigatorGraphblas"
      => /\ Known = IndexedTerms
         /\ number_nodes = Cardinality(IndexedTerms)
         /\ Len(lookup_tables.lut_index_to_term) = number_nodes
         /\ \A t \in IndexedTerms :
               /\ term_to_index(t) \in 0..(number_nodes - 1)
               /\ index_to_term(term_to_index(t)) = t
         /\ \A i \in 0..(number_nodes - 1) :
               /\ index_to_term(i) \in IndexedTerms
               /\ term_to_index(index_to_term(i)) = i
         /\ \A t \in IndexedTerms, u \in IndexedTerms :
               t < u => term_to_index(t) < term_to_index(u)

\* Lookup tables of several terms in which a term's index is not its id
\* less one, an obsolete term of lower id having been left out.
C22_Witness ==
    /\ navigator.class = "NavigatorGraphblas"
    /\ number_nodes >= 2
    /\ \E t \in Known : term_to_index(t) # t - 1
    /\ \A t \in Known : index_to_term(term_to_index(t)) = t

\* C25: entry (c, p) of the N x N is-a matrix is set if and only if term c
\* is a non-obsolete direct subclass of term p among the indexed terms; the
\* rows and cols arrays of every relation have equal length and every
\* stored index lies in [0, N).
C25_IsAMatrixConvention ==
    navigator.class = "NavigatorGraphblas"
      => /\ \A c \in Known, p \in Known :
               <<term_to_index(c), term_to_index(p)>> \in is_a
                 <=> (<<c, p>> \in ontology.subclass_of
                        /\ c \notin ontology.obsolete)
         /\ DOMAIN matrices_container = DOMAIN edges_indices
         /\ \A relation \in DOMAIN edges_indices :
               LET rows == edges_indices[relation].rows
                   cols == edges_indices[relation].cols
               IN  /\ Len(rows) = Len(cols)
                   /\ \A k \in 1..Len(rows) :
                         /\ rows[k] \in 0..(number_nodes - 1)
                         /\ cols[k] \in 0..(number_nodes - 1)
                   /\ matrices_container[relation] =
                         { <<rows[k], cols[k]>> : k \in 1..Len(rows) }

\* A matrix with an entry, built from a source in which an indexed obsolete
\* term has a parent, so that one is-a statement gave no entry.
C25_Witness ==
    /\ navigator.class = "NavigatorGraphblas"
    /\ is_a # {}
    /\ "part_of" \in DOMAIN edges_indices
    /\ \E c \in Known \cap ontology.obsolete, p \in Known :
          /\ <<c, p>> \in ontology.subclass_of
          /\ <<term_to_index(c), term_to_index(p)>> \notin is_a

\* The backend an adapter belongs to.
BackendOf(adapter) ==
    IF adapter.class \in {"NavigatorPronto", "RelationsPronto", "IntrospectionPronto"}
    THEN "pronto"
    ELSE IF adapter.class \in {"NavigatorGraphblas", "RelationsGraphblas", "IntrospectionGraphblas"}
    THEN "graphblas"
    ELSE "none"

Adapters == <<navigator, relations, introspection>>

\* C24: the backend is selected once at load time and never switched during
\* the lifetime of a client: after a successful load with backend b, no
\* later operation on the same client replaces its navigator, relations or
\* introspection adapters with those of the other backend.
C24_BackendNeverSwitched ==
    [][loads # <<>>
         => /\ BackendOf(navigator') = BackendOf(navigator)
            /\ BackendOf(relations') = BackendOf(relations)
            /\ BackendOf(introspection') = BackendOf(introspection)]_vars

\* C24 as the code has it: after a successful load no query replaces an
\* adapter; only a later load that succeeds does, and it replaces the three
\* together by those of the backend it was called with, which may be the
\* other backend.
C24_BackendSwitchedOnlyByLoad ==
    [][(loads # <<>> /\ Adapters' # Adapters)
         => /\ call'.op = "load"
            /\ result' = Return(None)
            /\ BackendOf(navigator') = call'.backend
            /\ BackendOf(relations') = call'.backend
            /\ BackendOf(introspection') = call'.backend
            /\ navigator' # navigator
            /\ relations' # relations
            /\ introspection' # introspection]_vars

\* A client loaded with one backend and then with the other, asked for its
\* roots by the adapters of the second.
C24_Witness ==
    /\ Len(loads) >= 2
    /\ loads[Len(loads) - 1] # loads[Len(loads)]
    /\ BackendOf(navigator) = loads[Len(loads)]
    /\ call.op = "get_root"
    /\ Returned

\* The adapters are those of the backend of the latest successful load and
\* were built by it; before any, there is none.
AdaptersOfLatestLoad ==
    IF loads = <<>>
    THEN /\ navigator = NoAdapter
         /\ relations = NoAdapter
         /\ introspection = NoAdapter
         /\ ontology = NoOntology
    ELSE \A adapter \in { navigator, relations, introspection } :
            /\ BackendOf(adapter) = loads[Len(loads)]
            /\ adapter.load = Len(loads)

\* C29: after any sequence of load calls on one client, successful or
\* failing, with any backend argument, the three adapters all belong to the
\* same backend and are built over the most recently successfully loaded
\* ontology and its lookup tables; a load that raises (source not found,
\* unknown backend) leaves the ontology, the lookup tables and the three
\* adapters unchanged.
C29_LoadKeepsAdaptersConsistent ==
    /\ [] AdaptersOfLatestLoad
    /\ [][call'.op = "load"
            => IF result' = Return(None)
               THEN /\ ontology' = call'.source
                    /\ loads' = Append(loads, call'.backend)
                    /\ lookup_tables' =
                          IF call'.backend = "graphblas"
                          THEN LookUpTables(extract_terms(
                                   { t \in ontology'.terms :
                                       call'.include_obsolete
                                         \/ t \notin ontology'.obsolete }))
                          ELSE NoLookUpTables
               ELSE UNCHANGED client_vars]_vars

\* A load with an unknown backend that raised on a client loaded before,
\* whose source it did not take.
C29_Witness ==
    /\ loads # <<>>
    /\ call.op = "load"
    /\ call.backend = "networkx"
    /\ result = Raise("ValueError")
    /\ call.source # ontology
    /\ AdaptersOfLatestLoad

\* C30: in the matrix backend, get_ancestors and get_descendants called
\* with a negative distance limit return what they return with no limit,
\* the full closure.
C30_NegativeLimitIsNoLimit ==
    (call.op \in {"get_ancestors", "get_descendants"}
        /\ call.term_id \in Known
        /\ call.distance # None /\ call.distance[1] < 0)
      => LET up == call.op = "get_ancestors"
             t == call.term_id
         IN  /\ Returned
             /\ result = IF up
                         THEN get_ancestors(t, None, call.include_self)
                         ELSE get_descendants(t, None, call.include_self)
             /\ result.value = Reachable(t, up) \cup
                                 (IF call.include_self THEN {t} ELSE {})

\* A negative limit under which a term two parent edges away, and no
\* parent, is returned.
C30_Witness ==
    /\ call.op = "get_ancestors" /\ call.term_id \in Known
    /\ call.distance # None /\ call.distance[1] < 0
    /\ Returned
    /\ result.value \ get_parents(call.term_id, TRUE).value # {}

\* C27: for every known term t of an acyclic is-a graph,
\* get_distance_from_root(t) is the number of edges of an actual
\* root-to-term path: at least one trajectory returned by
\* get_trajectories_from_root(t) has exactly that many edges.
C27_DistanceIsARootPathLength ==
    (call.op = "get_distance_from_root" /\ call.term_id \in Known /\ Acyclic)
      => /\ Returned
         /\ LET trajectories == get_trajectories_from_root(call.term_id).value
            IN  \E k \in 1..Len(trajectories) :
                   Len(trajectories[k]) - 1 = result.value

\* The layers that the get_ancestors or get_descendants call of the state
\* took.
LayersOfCall ==
    LET index == term_to_index(call.term_id)
    IN  traverse_layers(IF call.op = "get_ancestors" THEN T(is_a) ELSE is_a,
                        one_hot_vector(index),
                        IF call.include_self THEN {index} ELSE {},
                        call.distance)

\* C26: frontier expansion terminates on every finite is-a relation,
\* including one that contains cycles or self-loops: get_ancestors,
\* get_descendants, their with-distance variants and
\* get_trajectories_from_root each return after at most N expansion layers,
\* N being the number of terms.
C26_TerminatesWithinNLayers ==
    (call.op \in {"get_ancestors", "get_descendants",
                  "get_ancestors_with_distance",
                  "get_descendants_with_distance",
                  "get_trajectories_from_root"}
        /\ call.term_id \in Known)
      => /\ Returned
         /\ call.op \in {"get_ancestors", "get_descendants"}
              => /\ LayersOfCall <= number_nodes
                 /\ Cardinality(result.value) >= LayersOfCall
         /\ call.op \in {"get_ancestors_with_distance",
                         "get_descendants_with_distance"}
              => \A p \in result.value : p[2] \in 0..number_nodes
         /\ call.op = "get_trajectories_from_root"
              => \A k \in 1..Len(result.value) :
                    Len(result.value[k]) - 1 <= number_nodes

\* A relation with a cycle and a term that is its own subclass, on which
\* get_ancestors took as many layers as there are terms.
C26_Witness ==
    /\ call.op = "get_ancestors" /\ call.term_id \in Known
    /\ Returned
    /\ ~Acyclic
    /\ \E t \in Known : <<term_to_index(t), term_to_index(t)>> \in is_a
    /\ number_nodes >= 2
    /\ LayersOfCall = number_nodes

\* The root-to-leaf paths of a built tree: the root's key followed by the
\* keys to a Node that has no child.
RootToLeafPaths(tree) ==
    IF tree.nodes = {}
    THEN { <<tree.root>> }
    ELSE { <<tree.root>> \o node :
             node \in { n \in tree.nodes :
                          \A m \in tree.nodes :
                              Len(m) > Len(n) => SubSeq(m, 1, Len(n)) # n } }

\* C28: for every non-empty list of root-first trajectories, the tree built
\* by _build_tree_from_trajectories represents exactly the input: every
\* input trajectory is a root-to-leaf path of the tree and every
\* root-to-leaf path of the tree is an input trajectory, also when the
\* trajectories start at different root terms.
C28_TreeRepresentsTrajectories ==
    (call.op = "print_term_trajectories_tree" /\ call.trajectories # <<>>)
      => /\ Returned
         /\ RootToLeafPaths(result.value) =
               { call.trajectories[k] : k \in 1..Len(call.trajectories) }

\* What the call c returns when it runs alone.
RunAlone(c) ==
    IF c.op = "get_children"
    THEN get_children(c.term_id, c.include_self)
    ELSE IF c.op = "get_ancestors"
    THEN get_ancestors(c.term_id, c.distance, c.include_self)
    ELSE get_descendants(c.term_id, c.distance, c.include_self)

\* C23: after construction, queries are read-only: under any sequence or
\* interleaving of query calls from several threads on one loaded ontology,
\* the lookup tables and adjacency matrices are never modified, and each
\* query returns the same result it returns when run alone.
C23_ConcurrentQueriesReadOnly ==
    /\ [][UNCHANGED <<lookup_tables, matrices_container, edges_indices,
                      number_nodes, ontology>>]_vars
    /\ [](\A th \in Threads :
             threads[th].pc = "returned"
               => threads[th].result = RunAlone(threads[th].call))

\* A thread that returned several ancestors from a traversal during which
\* the other thread was inside the loop of its own, where it still is.
C23_Witness ==
    \E th \in Threads, other \in Threads :
        /\ th # other
        /\ threads[th].pc = "returned"
        /\ threads[th].call.op = "get_ancestors"
        /\ threads[th].result.kind = "return"
        /\ Cardinality(threads[th].result.value) >= 2
        /\ threads[other].pc = "while"
        /\ threads[other].visited # {}
        /\ threads[other].call # threads[th].call

====
